---- MODULE Spec2Model ----
(***************************************************************************)
(* Thumbnail preview subsystem of vidplayer-react:                         *)
(*   - ThumbnailLRUCache (src/hooks/use-thumbnail-generator.ts)            *)
(*   - useThumbnailGenerator: debounced, time-keyed frame capture          *)
(*                                                                         *)
(*   - ThumbnailPreview (components/controls): the clamped position       *)
(*   - debounce, throttle (src/utils/debounce.ts)                          *)
(*                                                                         *)
(* SpecCache drives one ThumbnailLRUCache with arbitrary get / set / has / *)
(* clear calls (SpecCacheAnyCapacity: constructed with any maxSize).       *)
(* SpecHook drives one mounted useThumbnailGenerator with its hidden       *)
(* <video>, its debounce timer and the React props (SpecHookSpaced: calls  *)
(* more than the debounce delay apart).  SpecPreview renders               *)
(* ThumbnailPreview; SpecDebounce and SpecThrottle drive one debounced and *)
(* one throttled function.                                                 *)
(***************************************************************************)
EXTENDS Integers, Sequences, FiniteSets, TLC

VARIABLES
    cache,      \* ThumbnailLRUCache.cache : Map<string,string>, as the sequence
                \* of its entries in insertion order (oldest first)
    maxSize,    \* ThumbnailLRUCache.maxSize
    revoked,    \* URL.revokeObjectURL calls so far, per blob handle
    recency,    \* history: the keys touched since the last clear, each once,
                \* in the order of their last touch (a get that hit, or a set)
    written,    \* history: per key, the value of the last set since the last clear
    promo,      \* history: the entry that the previous call moved from the
                \* oldest position of a full cache to the newest one
    last,       \* history: the operation that produced this state
    \* useThumbnailGenerator
    phase,      \* "new" (not mounted yet), "mounted" or "unmounted"
    enabled,    \* prop enabled
    videoSrc,   \* prop videoSrc (a URL or undefined)
    thumbnailUrl, isLoading, error,     \* the three useState cells
    videos,     \* every hidden <video> created so far: src, currentTime,
                \* whether a seek is under way, whether the load of src can
                \* still fail, and the captures listening for seeked / error
    videoRef,   \* videoRef.current: an index into videos, 0 for null (canvasRef
                \* is set and reset together with it)
    currentVideoSrcRef,
    timers,     \* the pending setTimeout callbacks: id, the videoSrc their
                \* closure holds, ms left
    debounceTimeoutRef,     \* id of the last timer created, 0 for undefined
    pendingTimeRef,
    propChanges,    \* number of re-renders with changed props so far
    burst,      \* history: the times of the accepted generateThumbnail calls
                \* since the debounce timer last fired or was cancelled
    shown,      \* history: the request (ordinal of its timer callback, time)
                \* whose cache hit or capture last wrote thumbnailUrl
    \* ThumbnailPreview (VideoControls)
    preview,    \* the props position and containerWidth of the last render
                \* and the clampedPosition it computed
    \* utils/debounce.ts
    delay,      \* the delay of debounce(fn, delay) / the limit of throttle(fn, limit)
    debounced,  \* the closure of debounce: timeoutId (0 for null)
    throttled,  \* the closure of throttle: inThrottle, lastArgs, timeoutId
    utilTimers, \* the pending setTimeout callbacks of the utility: id, ms
                \* left, and for debounce the args its closure holds
    timerCount, \* setTimeout calls of the utility so far (the last id given)
    fnCalls,    \* history: the invocations of fn, in order
    utilCalls,  \* history: the calls of the debounced / throttled function,
                \* in order, each with its args and what became of it
    \* useVideoPagination
    pageProps,  \* the options of the last render: videos.length, pageSize,
                \* and the initialPage of the mount
    currentPage,    \* the useState cell
    effectDeps, \* the dependency values each of the two effects last ran
                \* with (the empty tuple before its first run)
    staleTotalPages,    \* the totalPages of the render before the last one
                \* with other options (held by callbacks made then)
    navigated   \* history: an operation or a change of options has
                \* happened since the mount

cacheVars == <<cache, maxSize, revoked, recency, written, promo>>

hookVars == <<phase, enabled, videoSrc, thumbnailUrl, isLoading, error, videos,
              videoRef, currentVideoSrcRef, timers, debounceTimeoutRef,
              pendingTimeRef, propChanges, burst, shown>>

utilVars == <<preview, delay, debounced, throttled, utilTimers, timerCount,
              fnCalls, utilCalls>>

pageVars == <<pageProps, currentPage, effectDeps, staleTotalPages, navigated>>

vars == <<cache, maxSize, revoked, recency, written, promo, last,
          phase, enabled, videoSrc, thumbnailUrl, isLoading, error, videos,
          videoRef, currentVideoSrcRef, timers, debounceTimeoutRef,
          pendingTimeRef, propChanges, burst, shown,
          preview, delay, debounced, throttled, utilTimers, timerCount,
          fnCalls, utilCalls,
          pageProps, currentPage, effectDeps, staleTotalPages, navigated>>

----------------------------------------------------------------------------
(* Bounds of the model *)

MaxN == 2           \* largest maxSize a cache is constructed with
NumKeys == 3        \* number of distinct cache keys used by the callers
MaxRevoke == 1      \* revokeObjectURL calls per handle after which calls that
                    \* would revoke it again are no longer explored

MaxCalls == 3       \* accepted generateThumbnail calls
MaxPropChanges == 1 \* re-renders with changed props
MaxVideos == 1      \* hidden <video> elements created (mount, re-enable)
TickMs == 50        \* granularity of the clock, in ms

(* Program constants *)

MAX_CACHE_SIZE == 50
TIME_PRECISION == 1
DEBOUNCE_DELAY == 100

----------------------------------------------------------------------------
(* Strings *)

Undefined == "undefined"       \* JavaScript's undefined (never a stored string)
Null == "null"                 \* JavaScript's null

\* A JavaScript number used as a time: a finite number of half seconds, or
\* NaN.  NullTime is the null of pendingTimeRef.
Num(h) == [k |-> "num", h |-> h]
NaN == [k |-> "NaN"]
NullTime == [k |-> "null"]

Keys == { "k" \o ToString(i) : i \in 1..NumKeys }

BlobHandles == { "blob:x" }

Values == { "", "data:a" } \cup BlobHandles

\* value.startsWith('blob:')
StartsWithBlob(value) == value \in BlobHandles

----------------------------------------------------------------------------
(* JavaScript Map<string,string>: entries in insertion order *)

MapHas(m, key) == \E i \in 1..Len(m) : m[i].key = key

MapGet(m, key) ==
    IF MapHas(m, key)
    THEN m[CHOOSE i \in 1..Len(m) : m[i].key = key].value
    ELSE Undefined

MapDelete(m, key) == SelectSeq(m, LAMBDA e : e.key # key)

\* Map.prototype.set: an existing key keeps its position, a new key goes last
MapSet(m, key, value) ==
    IF MapHas(m, key)
    THEN [i \in 1..Len(m) |->
            IF m[i].key = key THEN [key |-> key, value |-> value] ELSE m[i]]
    ELSE Append(m, [key |-> key, value |-> value])

MapKeys(m) == [i \in 1..Len(m) |-> m[i].key]

MapKeySet(m) == { m[i].key : i \in 1..Len(m) }

----------------------------------------------------------------------------
(* class ThumbnailLRUCache: every method as a function of the Map it acts  *)
(* on.  The result names the Map afterwards, the value returned and the    *)
(* handles passed to URL.revokeObjectURL, in call order.                   *)

get_noPromote(m, key) ==
    [cache |-> m, result |-> MapGet(m, key), revokes |-> <<>>]

get(m, key) ==
    LET value == MapGet(m, key) IN
    IF value # Undefined
    THEN [cache |-> MapSet(MapDelete(m, key), key, value),
          result |-> value, revokes |-> <<>>]
    ELSE [cache |-> m, result |-> value, revokes |-> <<>>]

set_evictAboveCapacity(m, max, key, value) ==
    LET m1 == IF MapHas(m, key) THEN MapDelete(m, key) ELSE m
        evict == Len(m1) > max /\ Len(m1) > 0
        m2 == IF evict THEN MapDelete(m1, m1[1].key) ELSE m1
    IN [cache |-> MapSet(m2, key, value), result |-> Undefined, revokes |-> <<>>]

set_keepPosition(m, max, key, value) ==
    LET evict == ~MapHas(m, key) /\ Len(m) >= max /\ Len(m) > 0
        m2 == IF evict THEN MapDelete(m, m[1].key) ELSE m
    IN [cache |-> MapSet(m2, key, value), result |-> Undefined,
        revokes |-> IF evict /\ StartsWithBlob(m[1].value)
                    THEN <<m[1].value>> ELSE <<>>]

set_keepOldValue(m, max, key, value) ==
    LET old == MapGet(m, key)
        m1 == IF MapHas(m, key) THEN MapDelete(m, key) ELSE m
        evict == Len(m1) >= max /\ Len(m1) > 0
        m2 == IF evict THEN MapDelete(m1, m1[1].key) ELSE m1
    IN [cache |-> MapSet(m2, key, IF old # Undefined THEN old ELSE value),
        result |-> Undefined,
        revokes |-> IF evict /\ StartsWithBlob(m1[1].value)
                    THEN <<m1[1].value>> ELSE <<>>]

set(m, max, key, value) ==
    LET \* Delete if exists to update position
        m1 == IF MapHas(m, key) THEN MapDelete(m, key) ELSE m
        \* Evict oldest if at capacity; keys().next().value is undefined
        \* exactly when the Map is empty
        evict == Len(m1) >= max /\ Len(m1) > 0
        oldestKey == m1[1].key
        oldValue == MapGet(m1, oldestKey)
        m2 == IF evict THEN MapDelete(m1, oldestKey) ELSE m1
    IN [cache |-> MapSet(m2, key, value),
        result |-> Undefined,
        revokes |-> IF evict /\ StartsWithBlob(oldValue)
                    THEN <<oldValue>> ELSE <<>>]

has(m, key) == MapHas(m, key)

clear_keepEntries(m) ==
    [cache |-> m,
     result |-> Undefined,
     revokes |-> SelectSeq([i \in 1..Len(m) |-> m[i].value], StartsWithBlob)]

clear(m) ==
    [cache |-> <<>>,
     result |-> Undefined,
     revokes |-> SelectSeq([i \in 1..Len(m) |-> m[i].value], StartsWithBlob)]

size(m) == Len(m)

----------------------------------------------------------------------------
(* History kept beside the cache *)

\* the number of times handle h occurs in the sequence s
Count(s, h) == Cardinality({ i \in 1..Len(s) : s[i] = h })

Revoke(rv, s) == [h \in DOMAIN rv |-> rv[h] + Count(s, h)]

\* key becomes the most recently touched key
Touch(r, key) == Append(SelectSeq(r, LAMBDA k : k # key), key)

NoPromo == [key |-> Undefined]

\* the call op(key) about to run on Map m moves key, the oldest entry of a
\* full cache holding at least two entries, to the newest position; value
\* is what get(key) returns afterwards
PromoOf(m, op, key, value) ==
    IF Len(m) >= 2 /\ Len(m) = maxSize /\ m[1].key = key
    THEN [key |-> key, op |-> op, value |-> value, second |-> m[2].key]
    ELSE NoPromo

\* the key of keyset whose last touch is the oldest
LeastRecent(r, keyset) ==
    IF \E i \in 1..Len(r) : r[i] \in keyset
    THEN r[CHOOSE i \in 1..Len(r) :
                /\ r[i] \in keyset
                /\ \A j \in 1..(i - 1) : r[j] \notin keyset]
    ELSE Undefined

\* the call op(key, value) that ran on the present state, with what it
\* returned and released
Call(op, key, value, r) ==
    [op |-> op, key |-> key, value |-> value,
     result |-> r.result, revokes |-> r.revokes,
     pre |-> cache, prePromo |-> promo,
     preOldest |-> LeastRecent(recency, MapKeySet(cache))]

----------------------------------------------------------------------------
(* SpecCache: one cache, any calls *)

\* no useVideoPagination is mounted
PageUnused ==
    /\ pageProps = [videosLength |-> 0, pageSize |-> 1, initialPage |-> 1,
                    mounted |-> FALSE]
    /\ currentPage = 1
    /\ effectDeps = [reset |-> <<>>, clamp |-> <<>>]
    /\ staleTotalPages = 1
    /\ navigated = FALSE

\* nothing is rendered, debounced or throttled
UtilUnused ==
    /\ preview = [position |-> Undefined, containerWidth |-> Undefined,
                  clampedPosition |-> Undefined]
    /\ delay = 0
    /\ debounced = [timeoutId |-> 0]
    /\ throttled = [inThrottle |-> FALSE, lastArgs |-> Null, timeoutId |-> 0]
    /\ utilTimers = {} /\ timerCount = 0
    /\ fnCalls = <<>> /\ utilCalls = <<>>

\* no hook owns the cache
HookUnused ==
    /\ phase = "new" /\ enabled = FALSE /\ videoSrc = Undefined
    /\ thumbnailUrl = Null /\ isLoading = FALSE /\ error = Null
    /\ videos = <<>> /\ videoRef = 0 /\ currentVideoSrcRef = Undefined
    /\ timers = {} /\ debounceTimeoutRef = 0 /\ pendingTimeRef = NullTime
    /\ propChanges = 0 /\ burst = <<>> /\ shown = [seq |-> 0, time |-> NullTime, fires |-> 0]

InitCache ==
    /\ \E n \in 1..MaxN : maxSize = n      \* new ThumbnailLRUCache(n)
    /\ cache = <<>>
    /\ revoked = [h \in BlobHandles |-> 0]
    /\ recency = <<>>
    /\ written = [k \in Keys |-> Undefined]
    /\ promo = NoPromo
    /\ last = [op |-> "new"]
    /\ HookUnused
    /\ UtilUnused
    /\ PageUnused

RevokeWithinBound(r) ==
    \A h \in BlobHandles : revoked[h] + Count(r.revokes, h) <= MaxRevoke

CallGet(key) ==
    LET r == get(cache, key) IN
    /\ cache' = r.cache
    /\ revoked' = Revoke(revoked, r.revokes)
    /\ recency' = IF MapHas(cache, key) THEN Touch(recency, key) ELSE recency
    /\ promo' = PromoOf(cache, "get", key, r.result)
    /\ last' = Call("get", key, Undefined, r)
    /\ UNCHANGED <<maxSize, written>>
    /\ UNCHANGED hookVars
    /\ UNCHANGED utilVars
    /\ UNCHANGED pageVars

CallSet(key, value) ==
    LET r == set(cache, maxSize, key, value) IN
    /\ RevokeWithinBound(r)
    /\ cache' = r.cache
    /\ revoked' = Revoke(revoked, r.revokes)
    /\ recency' = Touch(recency, key)
    /\ written' = [written EXCEPT ![key] = value]
    /\ promo' = PromoOf(cache, "set", key, value)
    /\ last' = Call("set", key, value, r)
    /\ UNCHANGED maxSize
    /\ UNCHANGED hookVars
    /\ UNCHANGED utilVars
    /\ UNCHANGED pageVars

CallHas(key) ==
    /\ last' = Call("has", key, Undefined, [result |-> has(cache, key), revokes |-> <<>>])
    /\ UNCHANGED <<cache, maxSize, revoked, recency, written, promo>>
    /\ UNCHANGED hookVars
    /\ UNCHANGED utilVars
    /\ UNCHANGED pageVars

CallClear ==
    LET r == clear(cache) IN
    /\ RevokeWithinBound(r)
    /\ cache' = r.cache
    /\ revoked' = Revoke(revoked, r.revokes)
    /\ recency' = <<>>
    /\ written' = [k \in Keys |-> Undefined]
    /\ promo' = NoPromo
    /\ last' = Call("clear", Undefined, Undefined, r)
    /\ UNCHANGED maxSize
    /\ UNCHANGED hookVars
    /\ UNCHANGED utilVars
    /\ UNCHANGED pageVars

NextCache ==
    \/ \E key \in Keys : CallGet(key)
    \/ \E key \in Keys, value \in Values : CallSet(key, value)
    \/ \E key \in Keys : CallHas(key)
    \/ CallClear

SpecCache == InitCache /\ [][NextCache]_vars

----------------------------------------------------------------------------
(* Claims about ThumbnailLRUCache, checked under SpecCache *)

\* the last call was set(key, .) of a key that was not held, on a full cache
SetOfNewKeyAtCapacity ==
    /\ last.op = "set"
    /\ ~MapHas(last.pre, last.key)
    /\ Len(last.pre) = maxSize

\* the last call was set(key, .) of a key that was held
SetOfHeldKey == last.op = "set" /\ MapHas(last.pre, last.key)

\* the suffix of s of length n
Suffix(s, n) == SubSeq(s, Len(s) - n + 1, Len(s))

Min(a, b) == IF a <= b THEN a ELSE b

\* C1: after any sequence of get, set, has and clear calls on a cache
\* constructed with maxSize N >= 1, 0 <= size <= N.
C1_SizeWithinCapacity == 0 <= size(cache) /\ size(cache) <= maxSize

C1_Witness == SetOfNewKeyAtCapacity /\ size(cache) = maxSize

\* C2: a set of a key that is not held, on a full cache, removes exactly one
\* entry, the one whose last touch is the oldest; and the held keys are always
\* the maxSize most recently touched keys, the oldest first in the Map.
C2_StrictLRU ==
    /\ MapKeys(cache) = Suffix(recency, Min(maxSize, Len(recency)))
    /\ SetOfNewKeyAtCapacity =>
          /\ size(cache) = Len(last.pre)
          /\ MapKeySet(cache) =
                (MapKeySet(last.pre) \ {last.preOldest}) \cup {last.key}

C2_Witness ==
    /\ SetOfNewKeyAtCapacity
    /\ maxSize >= 2
    /\ Len(recency) > maxSize
    /\ last.preOldest # Undefined
    /\ ~MapHas(cache, last.preOldest)

\* C3: in a full cache holding at least two entries, after get(k) hit the
\* oldest entry, the next set of a new key evicts the entry that was second
\* oldest, and k is still held with its value unchanged.
C3_GetProtectsFromEviction ==
    (SetOfNewKeyAtCapacity /\ last.prePromo.key # Undefined
        /\ last.prePromo.op = "get") =>
          /\ ~MapHas(cache, last.prePromo.second)
          /\ MapKeySet(cache) =
                (MapKeySet(last.pre) \ {last.prePromo.second}) \cup {last.key}
          /\ MapGet(cache, last.prePromo.key) = last.prePromo.value

C3_Witness ==
    /\ SetOfNewKeyAtCapacity
    /\ last.prePromo.key # Undefined
    /\ last.prePromo.op = "get"
    /\ MapHas(cache, last.prePromo.key)

\* C4: set(k, v2) of a held key leaves size unchanged, removes no other
\* entry and changes no other value, makes get(k) return v2 and makes k the
\* most recently used entry: if k was the oldest of a full cache, the next
\* eviction removes the entry that was second oldest.
C4_SetOfHeldKey ==
    /\ SetOfHeldKey =>
          /\ size(cache) = Len(last.pre)
          /\ \A k \in MapKeySet(last.pre) \ {last.key} :
                MapGet(cache, k) = MapGet(last.pre, k)
          /\ MapGet(cache, last.key) = last.value
          /\ cache[Len(cache)].key = last.key
    /\ (SetOfNewKeyAtCapacity /\ last.prePromo.key # Undefined
          /\ last.prePromo.op = "set") =>
          /\ ~MapHas(cache, last.prePromo.second)
          /\ MapGet(cache, last.prePromo.key) = last.prePromo.value

C4_Witness ==
    /\ SetOfHeldKey
    /\ Len(last.pre) = maxSize
    /\ maxSize >= 2
    /\ last.pre[1].key = last.key
    /\ last.value # MapGet(last.pre, last.key)

\* C5: get(k) returns the value of the last set(k, .) as long as k has not
\* been evicted or cleared since, the empty string included, and returns
\* undefined for a key that is not held.
C5_RoundTrip ==
    /\ \A k \in MapKeySet(cache) : MapGet(cache, k) = written[k]
    /\ last.op = "set" => MapGet(cache, last.key) = last.value
    /\ last.op = "get" =>
          last.result = IF MapHas(last.pre, last.key)
                        THEN written[last.key] ELSE Undefined

C5_Witness ==
    /\ last.op = "get"
    /\ last.result = ""
    /\ Len(recency) > maxSize

\* C6: the cache releases a handle exactly once, when its entry is evicted or
\* the cache is cleared, and never while get still returns it for a held key:
\* no call releases the same handle twice, and a handle released by a call is
\* not the value of another key that is still held after the call.
C6_ReleaseOnlyUnreachable ==
    last.op \in {"get", "set", "has", "clear"} =>
        /\ \A i, j \in 1..Len(last.revokes) :
              last.revokes[i] = last.revokes[j] => i = j
        /\ \A i \in 1..Len(last.revokes) :
              \A k \in MapKeySet(cache) \ {last.key} :
                  MapGet(cache, k) # last.revokes[i]

\* C16: clear() releases the handle of every held entry and leaves the cache
\* empty: size is 0, has(k) is false and get(k) returns undefined for every
\* key k; a set on the cleared cache does what it does on a new cache: it
\* holds the one entry and releases nothing.
C16_ClearEmpties ==
    /\ last.op = "clear" =>
          /\ size(cache) = 0
          /\ \A k \in Keys : ~has(cache, k) /\ get(cache, k).result = Undefined
          /\ \A i \in 1..Len(last.pre) :
                StartsWithBlob(last.pre[i].value) =>
                    Count(last.revokes, last.pre[i].value) >= 1
          /\ \A k \in Keys, v \in Values :
                set(cache, maxSize, k, v) = set(<<>>, maxSize, k, v)
    /\ (last.op = "set" /\ last.pre = <<>>) =>
          /\ cache = <<[key |-> last.key, value |-> last.value]>>
          /\ last.revokes = <<>>

C16_Witness ==
    /\ last.op = "clear"
    /\ Len(last.pre) = maxSize
    /\ maxSize >= 2
    /\ last.revokes # <<>>

----------------------------------------------------------------------------
(* SpecCacheAnyCapacity: the constructor called with any number *)

\* the arguments of new ThumbnailLRUCache(maxSize): 0 and a negative number
\* besides the capacities of SpecCache
Capacities == (0 - 1)..MaxN

InitCacheAnyCapacity ==
    /\ \E n \in Capacities : maxSize = n
    /\ cache = <<>>
    /\ revoked = [h \in BlobHandles |-> 0]
    /\ recency = <<>>
    /\ written = [k \in Keys |-> Undefined]
    /\ promo = NoPromo
    /\ last = [op |-> "new"]
    /\ HookUnused
    /\ UtilUnused
    /\ PageUnused

SpecCacheAnyCapacity == InitCacheAnyCapacity /\ [][NextCache]_vars

\* C17: new ThumbnailLRUCache(maxSize) with maxSize < 1 is rejected: no cache
\* whose capacity is below 1 exists and accepts a set.
C17_CapacityRejected == ~(maxSize < 1 /\ last.op = "set" /\ MapHas(cache, last.key))

----------------------------------------------------------------------------
(* useThumbnailGenerator: times, keys, frames *)

IsFinite(t) == t.k = "num"

Srcs == { "a", "b" }

\* the times the caller asks for: 0.5 s, 1 s, 2 s
ReqTimes == { Num(1), Num(2), Num(4) }

\* Math.round(time / precision) * precision; Math.round rounds halves up
roundTime(time) ==
    IF IsFinite(time)
    THEN Num(((time.h + TIME_PRECISION) \div (2 * TIME_PRECISION))
                * (2 * TIME_PRECISION))
    ELSE NaN

\* a number inside a template literal
NumberToString(t) ==
    IF ~IsFinite(t) THEN "NaN"
    ELSE IF t.h % 2 = 0 THEN ToString(t.h \div 2)
    ELSE ToString(t.h \div 2) \o ".5"

\* `${videoSrc}:${roundTime(time)}`
getCacheKey(src, time) == src \o ":" \o NumberToString(roundTime(time))

\* canvas.toDataURL(...) of the frame the element presents
FrameOf(v) == "data:" \o v.src \o "@" \o NumberToString(v.currentTime)

\* what ctx.drawImage / canvas.toDataURL can do: succeed, getContext returns
\* null, or the canvas is tainted and the call throws
RasterOutcomes == { "ok", "noContext", "throws" }

\* document.createElement('video')
NewVideo ==
    [src |-> "", currentTime |-> Num(0), seeking |-> FALSE,
     mayError |-> FALSE, listeners |-> <<>>]

\* video.src = src: the element loads anew, a seek under way is aborted
WithSrc(v, src) ==
    [v EXCEPT !.src = src, !.currentTime = Num(0), !.seeking = FALSE,
              !.mayError = TRUE]

\* video.currentTime = t: a seek starts once there is media to seek in
WithCurrentTime(v, t) ==
    [v EXCEPT !.currentTime = t, !.seeking = (v.src # "")]

\* if (cached)
Truthy(str) == str # Undefined /\ str # Null /\ str # ""

\* setState of a component that is not mounted changes nothing
SetState(old, new) == IF phase = "mounted" THEN new ELSE old

----------------------------------------------------------------------------
(* useThumbnailGenerator: the effects, as functions of the refs they use *)

Refs ==
    [videoRef |-> videoRef, videos |-> videos, cache |-> cache,
     timers |-> timers, currentVideoSrcRef |-> currentVideoSrcRef,
     thumbnailUrl |-> thumbnailUrl, error |-> error, revokes |-> <<>>]

\* body of the first effect (enabled is true)
CreateElements(R) ==
    [R EXCEPT !.videos = Append(R.videos, NewVideo),
              !.videoRef = Len(R.videos) + 1]

\* cleanup of the first effect
Cleanup(R) ==
    LET c == clear(R.cache) IN
    [R EXCEPT
        !.videos = IF R.videoRef # 0
                   THEN [R.videos EXCEPT ![R.videoRef] = WithSrc(@, "")]
                   ELSE R.videos,
        !.videoRef = 0,
        !.cache = c.cache,
        !.revokes = R.revokes \o c.revokes,
        !.timers = { t \in R.timers : t.id # debounceTimeoutRef }]

\* body of the second effect
SourceEffect(R, src, en) ==
    IF R.videoRef = 0 \/ src = Undefined \/ ~en THEN R
    ELSE IF R.currentVideoSrcRef # src
    THEN LET c == clear(R.cache) IN
         [R EXCEPT
            !.currentVideoSrcRef = src,
            !.videos = [R.videos EXCEPT ![R.videoRef] = WithSrc(@, src)],
            !.cache = c.cache,
            !.revokes = R.revokes \o c.revokes,
            !.thumbnailUrl = Null,
            !.error = Null]
    ELSE R

Commit(R) ==
    /\ videoRef' = R.videoRef
    /\ videos' = R.videos
    /\ cache' = R.cache
    /\ timers' = R.timers
    /\ currentVideoSrcRef' = R.currentVideoSrcRef
    /\ thumbnailUrl' = R.thumbnailUrl
    /\ error' = R.error
    /\ revoked' = Revoke(revoked, R.revokes)

----------------------------------------------------------------------------
(* SpecHook: one useThumbnailGenerator and its environment *)

InitHook ==
    /\ phase = "new" /\ enabled = FALSE /\ videoSrc = Undefined
    /\ thumbnailUrl = Null /\ isLoading = FALSE /\ error = Null
    /\ videos = <<>> /\ videoRef = 0 /\ currentVideoSrcRef = Undefined
    /\ timers = {} /\ debounceTimeoutRef = 0 /\ pendingTimeRef = NullTime
    /\ propChanges = 0 /\ burst = <<>> /\ shown = [seq |-> 0, time |-> NullTime, fires |-> 0]
    /\ cache = <<>> /\ maxSize = MAX_CACHE_SIZE     \* new ThumbnailLRUCache()
    /\ revoked = [h \in BlobHandles |-> 0]
    /\ recency = <<>> /\ written = [k \in Keys |-> Undefined] /\ promo = NoPromo
    /\ last = [op |-> "new"]
    /\ UtilUnused
    /\ PageUnused

cacheHistory == <<maxSize, recency, written, promo>>

\* first render and both effects
Mount(src, en) ==
    /\ phase = "new"
    /\ phase' = "mounted"
    /\ enabled' = en /\ videoSrc' = src
    /\ Commit(SourceEffect(IF en THEN CreateElements(Refs) ELSE Refs, src, en))
    /\ last' = [op |-> "mount"]
    /\ UNCHANGED <<isLoading, debounceTimeoutRef, pendingTimeRef, propChanges,
                   burst, shown, cacheHistory>>
    /\ UNCHANGED utilVars
    /\ UNCHANGED pageVars

\* a re-render with other props: the cleanup and the body of the first effect
\* when enabled changed, then the second effect
SetProps(src, en) ==
    /\ phase = "mounted"
    /\ <<src, en>> # <<videoSrc, enabled>>
    /\ propChanges < MaxPropChanges
    /\ (en /\ ~enabled) => Len(videos) < MaxVideos
    /\ propChanges' = propChanges + 1
    /\ enabled' = en /\ videoSrc' = src
    /\ LET R1 == IF en # enabled /\ enabled THEN Cleanup(Refs) ELSE Refs
           R2 == IF en # enabled /\ en THEN CreateElements(R1) ELSE R1
       IN  /\ Commit(SourceEffect(R2, src, en))
           /\ burst' = IF R1.timers # timers THEN <<>> ELSE burst
    /\ last' = [op |-> "props", bound |-> currentVideoSrcRef, video |-> videoRef]
    /\ UNCHANGED <<phase, isLoading, debounceTimeoutRef, pendingTimeRef,
                   shown, cacheHistory>>
    /\ UNCHANGED utilVars
    /\ UNCHANGED pageVars

Unmount ==
    /\ phase = "mounted"
    /\ phase' = "unmounted"
    /\ LET R1 == IF enabled THEN Cleanup(Refs) ELSE Refs
       IN  /\ Commit(R1)
           /\ burst' = IF R1.timers # timers THEN <<>> ELSE burst
    /\ last' = [op |-> "unmount", video |-> videoRef]
    /\ UNCHANGED <<enabled, videoSrc, isLoading, debounceTimeoutRef,
                   pendingTimeRef, propChanges, shown, cacheHistory>>
    /\ UNCHANGED utilVars
    /\ UNCHANGED pageVars

GenerateThumbnail_noClearTimeout(time) ==
    /\ phase = "mounted"
    /\ debounceTimeoutRef < MaxCalls
    /\ enabled /\ videoSrc # Undefined
    /\ pendingTimeRef' = time
    /\ debounceTimeoutRef' = debounceTimeoutRef + 1
    /\ timers' = timers \cup {[id |-> debounceTimeoutRef + 1, src |-> videoSrc,
                               remaining |-> DEBOUNCE_DELAY]}
    /\ burst' = Append(burst, time)
    /\ last' = [op |-> "generateThumbnail", time |-> time, accepted |-> TRUE]
    /\ UNCHANGED <<phase, enabled, videoSrc, thumbnailUrl, isLoading, error,
                   videos, videoRef, currentVideoSrcRef, propChanges, shown,
                   cacheVars>>
    /\ UNCHANGED utilVars
    /\ UNCHANGED pageVars

GenerateThumbnail_keepFirstTime(time) ==
    /\ phase = "mounted"
    /\ debounceTimeoutRef < MaxCalls
    /\ enabled /\ videoSrc # Undefined
    /\ pendingTimeRef' = IF pendingTimeRef = NullTime THEN time ELSE pendingTimeRef
    /\ debounceTimeoutRef' = debounceTimeoutRef + 1
    /\ timers' = { t \in timers : t.id # debounceTimeoutRef }
                    \cup {[id |-> debounceTimeoutRef + 1, src |-> videoSrc,
                           remaining |-> DEBOUNCE_DELAY]}
    /\ burst' = Append(burst, time)
    /\ last' = [op |-> "generateThumbnail", time |-> time, accepted |-> TRUE]
    /\ UNCHANGED <<phase, enabled, videoSrc, thumbnailUrl, isLoading, error,
                   videos, videoRef, currentVideoSrcRef, propChanges, shown,
                   cacheVars>>
    /\ UNCHANGED utilVars
    /\ UNCHANGED pageVars

GenerateThumbnail(time) ==
    /\ phase = "mounted"
    /\ debounceTimeoutRef < MaxCalls
    /\ IF ~enabled \/ videoSrc = Undefined
       THEN /\ last' = [op |-> "generateThumbnail", time |-> time,
                        accepted |-> FALSE]
            /\ UNCHANGED <<pendingTimeRef, debounceTimeoutRef, timers, burst>>
       ELSE \* clearTimeout(debounceTimeoutRef.current), then a new timer
            /\ pendingTimeRef' = time
            /\ debounceTimeoutRef' = debounceTimeoutRef + 1
            /\ timers' = { t \in timers : t.id # debounceTimeoutRef }
                            \cup {[id |-> debounceTimeoutRef + 1,
                                   src |-> videoSrc,
                                   remaining |-> DEBOUNCE_DELAY]}
            /\ burst' = Append(burst, time)
            /\ last' = [op |-> "generateThumbnail", time |-> time,
                        accepted |-> TRUE]
    /\ UNCHANGED <<phase, enabled, videoSrc, thumbnailUrl, isLoading, error,
                   videos, videoRef, currentVideoSrcRef, propChanges, shown,
                   cacheVars>>
    /\ UNCHANGED utilVars
    /\ UNCHANGED pageVars

\* generateThumbnail as returned by an earlier render: its closure holds
\* enabled = true and the videoSrc of that render, whatever the props are
\* now.  The render that bound currentVideoSrcRef is such a render.
GenerateThumbnailStale(time) ==
    /\ phase = "mounted"
    /\ debounceTimeoutRef < MaxCalls
    /\ currentVideoSrcRef # Undefined
    /\ <<videoSrc, enabled>> # <<currentVideoSrcRef, TRUE>>
    /\ pendingTimeRef' = time
    /\ debounceTimeoutRef' = debounceTimeoutRef + 1
    /\ timers' = { t \in timers : t.id # debounceTimeoutRef }
                    \cup {[id |-> debounceTimeoutRef + 1,
                           src |-> currentVideoSrcRef,
                           remaining |-> DEBOUNCE_DELAY]}
    /\ burst' = Append(burst, time)
    /\ last' = [op |-> "generateThumbnail", time |-> time, accepted |-> TRUE,
                stale |-> TRUE]
    /\ UNCHANGED <<phase, enabled, videoSrc, thumbnailUrl, isLoading, error,
                   videos, videoRef, currentVideoSrcRef, propChanges, shown,
                   cacheVars>>
    /\ UNCHANGED utilVars
    /\ UNCHANGED pageVars

\* time passes; a timer that is due runs before more time passes
Tick ==
    /\ timers # {}
    /\ \A t \in timers : t.remaining > 0
    /\ timers' = { [t EXCEPT !.remaining =
                        IF @ > TickMs THEN @ - TickMs ELSE 0] : t \in timers }
    /\ last' = [op |-> "tick"]
    /\ UNCHANGED <<phase, enabled, videoSrc, thumbnailUrl, isLoading, error,
                   videos, videoRef, currentVideoSrcRef, debounceTimeoutRef,
                   pendingTimeRef, propChanges, burst, shown, cacheVars>>
    /\ UNCHANGED utilVars
    /\ UNCHANGED pageVars

\* the capture a timer callback starts: the closure shared by its
\* handleSeeked and handleError
Capture(t, requestedTime) ==
    [key |-> getCacheKey(t.src, requestedTime), src |-> t.src,
     time |-> requestedTime, seq |-> shown.fires + 1]

\* the setTimeout callback of generateThumbnail
TimerFire_noCacheCheck(t) ==
    LET requestedTime == pendingTimeRef
        target == roundTime(requestedTime)
    IN
    /\ t.remaining = 0
    /\ timers' = timers \ {t}
    /\ burst' = <<>>
    /\ IF videoRef = 0
       THEN /\ error' = "Video element not available"
            /\ shown' = [shown EXCEPT !.fires = @ + 1]
            /\ last' = [op |-> "timer", src |-> t.src, burst |-> burst,
                        requestedTime |-> requestedTime,
                        key |-> getCacheKey(t.src, requestedTime),
                        pre |-> cache, outcome |-> "noVideo", seek |-> NullTime]
            /\ UNCHANGED <<thumbnailUrl, isLoading, videos, cache>>
       ELSE /\ isLoading' = TRUE
            /\ error' = Null
            /\ videos' = [videos EXCEPT ![videoRef] =
                  LET v == [@ EXCEPT !.listeners =
                                Append(@, Capture(t, requestedTime))]
                  IN IF IsFinite(target) THEN WithCurrentTime(v, target) ELSE v]
            /\ shown' = [shown EXCEPT !.fires = @ + 1]
            /\ last' = [op |-> "timer", src |-> t.src, burst |-> burst,
                        requestedTime |-> requestedTime,
                        key |-> getCacheKey(t.src, requestedTime),
                        pre |-> cache,
                        outcome |-> IF IsFinite(target) THEN "seek" ELSE "throws",
                        seek |-> IF IsFinite(target) THEN target ELSE NullTime]
            /\ UNCHANGED <<thumbnailUrl, cache>>
    /\ UNCHANGED <<phase, enabled, videoSrc, videoRef, currentVideoSrcRef,
                   debounceTimeoutRef, pendingTimeRef, propChanges, maxSize,
                   revoked, recency, written, promo>>
    /\ UNCHANGED utilVars
    /\ UNCHANGED pageVars

TimerFire(t) ==
    LET requestedTime == pendingTimeRef
        cacheKey == getCacheKey(t.src, requestedTime)
        g == get(cache, cacheKey)           \* Check cache first
        cached == g.result
        target == roundTime(requestedTime)
        fired == [op |-> "timer", src |-> t.src, burst |-> burst,
                  requestedTime |-> requestedTime, key |-> cacheKey,
                  pre |-> cache]
    IN
    /\ t.remaining = 0
    /\ timers' = timers \ {t}
    /\ burst' = <<>>
    /\ cache' = g.cache
    /\ IF requestedTime = NullTime
       THEN /\ last' = [op |-> "timer", outcome |-> "null"]
            /\ UNCHANGED <<thumbnailUrl, isLoading, error, videos, shown>>
       ELSE IF Truthy(cached)
       THEN /\ thumbnailUrl' = cached
            /\ isLoading' = FALSE
            /\ error' = Null
            /\ shown' = [seq |-> shown.fires + 1, time |-> requestedTime,
                         fires |-> shown.fires + 1]
            /\ last' = [fired EXCEPT !.op = "timer"] @@
                          [outcome |-> "hit", seek |-> NullTime]
            /\ UNCHANGED videos
       ELSE IF videoRef = 0
       THEN /\ error' = "Video element not available"
            /\ shown' = [shown EXCEPT !.fires = @ + 1]
            /\ last' = fired @@ [outcome |-> "noVideo", seek |-> NullTime]
            /\ UNCHANGED <<thumbnailUrl, isLoading, videos>>
       ELSE \* listeners first, then video.currentTime = roundTime(...),
            \* which throws a TypeError for a value that is not finite
            /\ isLoading' = TRUE
            /\ error' = Null
            /\ videos' = [videos EXCEPT ![videoRef] =
                  LET v == [@ EXCEPT !.listeners =
                                Append(@, Capture(t, requestedTime))]
                  IN IF IsFinite(target) THEN WithCurrentTime(v, target) ELSE v]
            /\ shown' = [shown EXCEPT !.fires = @ + 1]
            /\ last' = fired @@
                  [outcome |-> IF IsFinite(target) THEN "seek" ELSE "throws",
                   seek |-> IF IsFinite(target) THEN target ELSE NullTime]
            /\ UNCHANGED thumbnailUrl
    /\ UNCHANGED <<phase, enabled, videoSrc, videoRef, currentVideoSrcRef,
                   debounceTimeoutRef, pendingTimeRef, propChanges, maxSize,
                   revoked, recency, written, promo>>
    /\ UNCHANGED utilVars
    /\ UNCHANGED pageVars

\* captureThumbnail(): the frame of videoRef.current, or null
captureThumbnail(outcome) ==
    IF videoRef = 0 THEN Null
    ELSE IF outcome # "ok" THEN Null
    ELSE FrameOf(videos[videoRef])

RECURSIVE SetEach(_, _, _)
\* cacheRef.current.set(cacheKey, thumbnail) of every handleSeeked, in the
\* order the listeners were added
SetEach(m, captures, thumbnail) ==
    IF captures = <<>> THEN m
    ELSE SetEach(set(m, maxSize, Head(captures).key, thumbnail).cache,
                 Tail(captures), thumbnail)

\* the captures (listener pairs) an event of element i completes
Completed(i) == videos[i].listeners

MaxSeq(captures) ==
    CHOOSE c \in { captures[j] : j \in 1..Len(captures) } :
        \A j \in 1..Len(captures) : captures[j].seq <= c.seq

Event(op, i, outcome, thumbnail) ==
    [op |-> op, video |-> i, outcome |-> outcome, thumbnail |-> thumbnail,
     completed |-> Completed(i), pre |-> cache,
     prePreview |-> <<thumbnailUrl, isLoading, error>>,
     preShown |-> shown, bound |-> currentVideoSrcRef]

\* the element i ends its seek and dispatches 'seeked': every handleSeeked
\* listening on it runs
VideoSeeked(i, outcome) ==
    LET thumbnail == captureThumbnail(outcome)
        n == Len(Completed(i))
    IN
    /\ videos[i].seeking
    /\ videos' = [videos EXCEPT ![i].seeking = FALSE, ![i].listeners = <<>>]
    /\ IF n = 0
       THEN /\ outcome = "ok"
            /\ UNCHANGED <<cache, thumbnailUrl, error, isLoading, shown>>
       ELSE /\ cache' = IF Truthy(thumbnail)
                        THEN SetEach(cache, Completed(i), thumbnail)
                        ELSE cache
            /\ thumbnailUrl' = SetState(thumbnailUrl, thumbnail)
            /\ error' = SetState(error, IF Truthy(thumbnail) THEN Null
                                        ELSE "Failed to capture thumbnail")
            /\ isLoading' = SetState(isLoading, FALSE)
            /\ shown' = [seq |-> MaxSeq(Completed(i)).seq,
                         time |-> MaxSeq(Completed(i)).time,
                         fires |-> shown.fires]
    /\ last' = Event("seeked", i, outcome, thumbnail)
    /\ UNCHANGED <<phase, enabled, videoSrc, videoRef, currentVideoSrcRef,
                   timers, debounceTimeoutRef, pendingTimeRef, propChanges,
                   burst, maxSize, revoked, recency, written, promo>>
    /\ UNCHANGED utilVars
    /\ UNCHANGED pageVars

\* the element i fails to load or decode and dispatches 'error': every
\* handleError listening on it runs
VideoError(i) ==
    LET n == Len(Completed(i)) IN
    /\ videos[i].mayError
    /\ videos' = [videos EXCEPT ![i].seeking = FALSE, ![i].mayError = FALSE,
                                ![i].listeners = <<>>]
    /\ IF n = 0
       THEN UNCHANGED <<thumbnailUrl, error, isLoading, shown>>
       ELSE /\ thumbnailUrl' = SetState(thumbnailUrl, Null)
            /\ error' = SetState(error, "Failed to load video for thumbnail")
            /\ isLoading' = SetState(isLoading, FALSE)
            /\ shown' = [seq |-> MaxSeq(Completed(i)).seq,
                         time |-> MaxSeq(Completed(i)).time,
                         fires |-> shown.fires]
    /\ last' = Event("error", i, "error", Null)
    /\ UNCHANGED <<phase, enabled, videoSrc, videoRef, currentVideoSrcRef,
                   timers, debounceTimeoutRef, pendingTimeRef, propChanges,
                   burst, cacheVars>>
    /\ UNCHANGED utilVars
    /\ UNCHANGED pageVars

clearCache ==
    LET c == clear(cache) IN
    /\ phase = "mounted"
    /\ cache # <<>> \/ thumbnailUrl # Null
    /\ cache' = c.cache
    /\ revoked' = Revoke(revoked, c.revokes)
    /\ thumbnailUrl' = Null
    /\ last' = [op |-> "clearCache"]
    /\ UNCHANGED <<phase, enabled, videoSrc, isLoading, error, videos, videoRef,
                   currentVideoSrcRef, timers, debounceTimeoutRef,
                   pendingTimeRef, propChanges, burst, shown, cacheHistory>>
    /\ UNCHANGED utilVars
    /\ UNCHANGED pageVars

NextHook ==
    \/ \E src \in Srcs \cup {Undefined}, en \in BOOLEAN : Mount(src, en)
    \/ \E src \in Srcs \cup {Undefined}, en \in BOOLEAN : SetProps(src, en)
    \/ Unmount
    \/ \E time \in ReqTimes : GenerateThumbnail(time)
    \/ \E time \in ReqTimes : GenerateThumbnailStale(time)
    \/ Tick
    \/ \E t \in timers : TimerFire(t)
    \/ \E i \in 1..Len(videos), outcome \in RasterOutcomes : VideoSeeked(i, outcome)
    \/ \E i \in 1..Len(videos) : VideoError(i)
    \/ clearCache

SpecHook == InitHook /\ [][NextHook]_vars

----------------------------------------------------------------------------
(* Claims about useThumbnailGenerator, checked under SpecHook *)

\* the last step was a debounce timer callback that looked the cache up
TimerLookedUp == last.op = "timer" /\ last.outcome # "null"

LastOf(s) == s[Len(s)]

\* C7: a burst of accepted generateThumbnail calls, each made while the timer
\* of the previous one is pending, leaves exactly one timer pending; unless
\* the hook is torn down first, that timer runs once, looks the cache up
\* under the time of the last call of the burst and seeks (on a miss) to the
\* quantized time of that call only.
C7_DebounceCoalescing ==
    /\ Cardinality(timers) = IF burst = <<>> THEN 0 ELSE 1
    /\ TimerLookedUp =>
          /\ last.burst # <<>>
          /\ last.requestedTime = LastOf(last.burst)
          /\ last.key = getCacheKey(last.src, LastOf(last.burst))
          /\ last.outcome = "seek" => last.seek = roundTime(LastOf(last.burst))
          /\ last.outcome # "seek" => last.seek = NullTime

C7_Witness ==
    /\ TimerLookedUp
    /\ last.outcome = "seek"
    /\ Len(last.burst) >= 2
    /\ roundTime(last.burst[1]) # roundTime(LastOf(last.burst))

\* a capture that was started before, and for another time bucket than, the
\* request that last wrote the preview
Stale(c, sh) == c.seq < sh.seq /\ roundTime(c.time) # roundTime(sh.time)

AllStale(captures, sh) ==
    /\ captures # <<>>
    /\ \A j \in 1..Len(captures) : Stale(captures[j], sh)

\* C8: once a cache hit or a capture for a later request has written the
\* preview, the seeked or error completion of captures started earlier for
\* another time changes neither thumbnailUrl, isLoading, error nor the cache.
\* Stated for the plainest case: the event comes from the element the hook
\* is bound to and the captures were started under the bound source.
C8_StaleCompletionDiscarded ==
    (/\ last.op \in {"seeked", "error"}
     /\ last.video = videoRef
     /\ AllStale(last.completed, last.preShown)
     /\ \A j \in 1..Len(last.completed) : last.completed[j].src = last.bound)
        => /\ <<thumbnailUrl, isLoading, error>> = last.prePreview
           /\ cache = last.pre

C10_CaptureSuccess ==
    (last.op = "seeked" /\ Truthy(last.thumbnail)) =>
        \A j \in 1..Len(last.completed) :
            LET c == last.completed[j] IN
            /\ c.key = getCacheKey(last.bound, c.time)
            /\ MapGet(cache, c.key) = last.thumbnail
            /\ thumbnailUrl = last.thumbnail
            /\ isLoading = FALSE
            /\ error = Null

\* a capture attempt of the mounted hook has just failed: the timer callback
\* found no video element, or a seeked completion rasterized nothing, or an
\* error event completed a capture
CaptureFailed ==
    /\ phase = "mounted"
    /\ \/ last.op = "timer" /\ last.outcome = "noVideo"
       \/ last.op = "seeked" /\ last.completed # <<>> /\ ~Truthy(last.thumbnail)
       \/ last.op = "error" /\ last.completed # <<>>

\* C11: after every failure outcome of a capture attempt the cache is as it
\* was, error is a non-empty message, thumbnailUrl is null even if a
\* thumbnail was shown before, and isLoading is false.
C11_CaptureFailure ==
    CaptureFailed =>
        /\ cache = last.pre
        /\ Truthy(error)
        /\ thumbnailUrl = Null
        /\ isLoading = FALSE

\* the cache keys of source src
KeysOfSource(src) == { getCacheKey(src, time) : time \in ReqTimes }

\* C12: every key held in the cache belongs to the bound source; a re-render
\* that binds another source leaves the cache empty, and nothing started
\* under the previous source writes an entry afterwards.
C12_SourceIdentityBinding ==
    /\ \A key \in MapKeySet(cache) :
          /\ currentVideoSrcRef # Undefined
          /\ key \in KeysOfSource(currentVideoSrcRef)
    /\ (last.op = "props" /\ last.bound # currentVideoSrcRef) => cache = <<>>

\* the last step tore the engine down: the cleanup of the first effect ran
\* (unmount, or enabled became false)
TornDown ==
    /\ last.op \in {"props", "unmount"}
    /\ last.video # 0
    /\ videoRef = 0

\* C13: no debounce timer is pending after a teardown, and a debounce timer
\* that runs was scheduled under the source that is bound when it runs: a
\* timer pending at a re-binding to another URL never fires.
C13_TimerCancellation ==
    /\ TornDown => timers = {}
    /\ TimerLookedUp => last.src = currentVideoSrcRef

----------------------------------------------------------------------------
(* SpecHookSpaced: the hook driven by a caller that leaves more than        *)
(* DEBOUNCE_DELAY between two generateThumbnail calls, and that changes no  *)
(* prop and does not unmount while a timer is pending                       *)

\* no debounce timer is pending: the previous call is more than the delay ago
Spaced == timers = {}

NextHookSpaced ==
    \/ \E src \in Srcs \cup {Undefined}, en \in BOOLEAN : Mount(src, en)
    \/ \E src \in Srcs \cup {Undefined}, en \in BOOLEAN :
            Spaced /\ SetProps(src, en)
    \/ Spaced /\ Unmount
    \/ \E time \in ReqTimes : Spaced /\ GenerateThumbnail(time)
    \/ \E time \in ReqTimes : Spaced /\ GenerateThumbnailStale(time)
    \/ Tick
    \/ \E t \in timers : TimerFire(t)
    \/ \E i \in 1..Len(videos), outcome \in RasterOutcomes : VideoSeeked(i, outcome)
    \/ \E i \in 1..Len(videos) : VideoError(i)
    \/ clearCache

SpecHookSpaced == InitHook /\ [][NextHookSpaced]_vars

\* C18: generateThumbnail calls spaced farther apart than the debounce delay
\* are not merged: every accepted call has its own timer, pending or run, so
\* k calls make k attempts, and the attempt of a call looks up and seeks the
\* time of that call.
C18_SeparatedRequests ==
    /\ shown.fires + Cardinality(timers) = debounceTimeoutRef
    /\ TimerLookedUp =>
          /\ last.burst = <<last.requestedTime>>
          /\ last.key = getCacheKey(last.src, last.burst[1])
          /\ last.outcome = "seek" => last.seek = roundTime(last.burst[1])

C18_Witness ==
    /\ TimerLookedUp
    /\ shown.fires = 3
    /\ debounceTimeoutRef = 3
    /\ last.requestedTime # shown.time

----------------------------------------------------------------------------
(* ThumbnailPreview: the clamped position of the preview.  Numbers are     *)
(* exact fractions n / d with d > 0; the rounding of IEEE doubles is not   *)
(* modelled.                                                               *)

THUMBNAIL_WIDTH == 160

Q(n, d) == [n |-> n, d |-> d]

QLe(a, b) == a.n * b.d <= b.n * a.d

QDiv(a, b) == IF b.n > 0 THEN Q(a.n * b.d, a.d * b.n) ELSE Q(0 - a.n * b.d, 0 - a.d * b.n)

QMul(a, b) == Q(a.n * b.n, a.d * b.d)

QSub(a, b) == Q(a.n * b.d - b.n * a.d, a.d * b.d)

\* Math.max, Math.min of two numbers
MathMax(a, b) == IF QLe(a, b) THEN b ELSE a

MathMin(a, b) == IF QLe(a, b) THEN a ELSE b

halfWidth == Q(THUMBNAIL_WIDTH, 2)

minPosition(containerWidth) == QMul(QDiv(halfWidth, Q(containerWidth, 1)), Q(100, 1))

maxPosition(containerWidth) == QSub(Q(100, 1), minPosition(containerWidth))

clampedPosition_noLowerBound(position, containerWidth) ==
    MathMin(maxPosition(containerWidth), position)

clampedPosition(position, containerWidth) ==
    MathMax(minPosition(containerWidth),
            MathMin(maxPosition(containerWidth), position))

\* the hover positions, in percent of the progress bar: -50, -40, ..., 150
HoverPercents == { Q(h * 10 - 50, 1) : h \in 0..20 }

\* the widths of the progress bar, in px: containerWidth={progressWidth || 1}
\* passes 1 for a width of 0
ContainerWidths == { 1, 50, 80, 100, 159, 160, 161, 200, 320, 1000, 2000 }

----------------------------------------------------------------------------
(* SpecPreview: ThumbnailPreview rendered with any position and width *)

InitPreview ==
    /\ cache = <<>> /\ maxSize = MAX_CACHE_SIZE
    /\ revoked = [h \in BlobHandles |-> 0]
    /\ recency = <<>> /\ written = [k \in Keys |-> Undefined] /\ promo = NoPromo
    /\ last = [op |-> "new"]
    /\ HookUnused
    /\ UtilUnused
    /\ PageUnused

utilOthers == <<delay, debounced, throttled, utilTimers, timerCount, fnCalls,
                utilCalls>>

ThumbnailPreview(position, containerWidth) ==
    /\ preview' = [position |-> position, containerWidth |-> containerWidth,
                   clampedPosition |-> clampedPosition(position, containerWidth)]
    /\ last' = [op |-> "render"]
    /\ UNCHANGED <<cacheVars, hookVars, utilOthers>>
    /\ UNCHANGED pageVars

NextPreview ==
    \E position \in HoverPercents, containerWidth \in ContainerWidths :
        ThumbnailPreview(position, containerWidth)

SpecPreview == InitPreview /\ [][NextPreview]_vars

\* the left and the right edge of the preview, in px times 100 d, for a
\* clamped position n / d percent of a container of width px
LeftEdge(p, width) == p.n * width - 100 * p.d * (THUMBNAIL_WIDTH \div 2)

RightEdge(p, width) == p.n * width + 100 * p.d * (THUMBNAIL_WIDTH \div 2)

Rendered == last.op = "render"

\* C14: for a hover position in [-50, 150] and a container at least as wide
\* as the preview (up to 2000 px) the clamped position p is between
\* min = (80 / width) * 100 and max = 100 - min, and the preview centred at
\* p percent, 80 px to each side, lies within [0, width].
C14_PreviewWithinBounds ==
    (Rendered /\ preview.containerWidth >= THUMBNAIL_WIDTH) =>
        LET p == preview.clampedPosition
            w == preview.containerWidth
        IN  /\ QLe(minPosition(w), p)
            /\ QLe(p, maxPosition(w))
            /\ LeftEdge(p, w) >= 0
            /\ RightEdge(p, w) <= 100 * p.d * w

C14_Witness ==
    /\ Rendered
    /\ preview.containerWidth > THUMBNAIL_WIDTH
    /\ QLe(preview.position, Q(0, 1))
    /\ LeftEdge(preview.clampedPosition, preview.containerWidth) = 0

\* C15: for a container that is not wider than the preview, the width 1
\* included, and any hover position, the clamped position is a finite
\* percent within [0, 100].
C15_DegenerateClamp ==
    (Rendered /\ preview.containerWidth <= THUMBNAIL_WIDTH) =>
        /\ QLe(Q(0, 1), preview.clampedPosition)
        /\ QLe(preview.clampedPosition, Q(100, 1))

----------------------------------------------------------------------------
(* utils/debounce.ts: debounce(fn, delay) *)

MaxUtilCalls == 3       \* calls of the debounced / throttled function

\* the argument lists the function is called with
Args == { "first", "second" }

\* the delay of debounce, the limit of throttle, in ms
Delays == { 0, TickMs, 2 * TickMs }

\* the calls whose fate is old get the fate new
Refate(calls, old, new) ==
    [c \in 1..Len(calls) |->
        IF calls[c].fate = old THEN [calls[c] EXCEPT !.fate = new] ELSE calls[c]]

\* the index of the call whose fate is f, 0 if there is none
CallWithFate(calls, f) ==
    IF \E c \in 1..Len(calls) : calls[c].fate = f
    THEN CHOOSE c \in 1..Len(calls) : calls[c].fate = f
    ELSE 0

\* clearTimeout(id)
ClearTimeout(ts, id) == { t \in ts : t.id # id }

InitUtil ==
    /\ cache = <<>> /\ maxSize = MAX_CACHE_SIZE
    /\ revoked = [h \in BlobHandles |-> 0]
    /\ recency = <<>> /\ written = [k \in Keys |-> Undefined] /\ promo = NoPromo
    /\ last = [op |-> "new"]
    /\ HookUnused
    /\ PageUnused
    /\ preview = [position |-> Undefined, containerWidth |-> Undefined,
                  clampedPosition |-> Undefined]
    /\ \E d \in Delays : delay = d
    /\ debounced = [timeoutId |-> 0]
    /\ throttled = [inThrottle |-> FALSE, lastArgs |-> Null, timeoutId |-> 0]
    /\ utilTimers = {} /\ timerCount = 0
    /\ fnCalls = <<>> /\ utilCalls = <<>>

\* time passes; a timer that is due runs before more time passes
UtilTick ==
    /\ utilTimers # {}
    /\ \A t \in utilTimers : t.remaining > 0
    /\ utilTimers' = { [t EXCEPT !.remaining =
                            IF @ > TickMs THEN @ - TickMs ELSE 0] : t \in utilTimers }
    /\ last' = [op |-> "tick"]
    /\ UNCHANGED <<cacheVars, hookVars, preview, delay, debounced, throttled,
                   timerCount, fnCalls, utilCalls>>
    /\ UNCHANGED pageVars

Debounced_noClearTimeout(args) ==
    /\ Len(utilCalls) < MaxUtilCalls
    /\ utilTimers' = utilTimers \cup
            {[id |-> timerCount + 1, args |-> args, remaining |-> delay,
              call |-> Len(utilCalls) + 1]}
    /\ timerCount' = timerCount + 1
    /\ debounced' = [timeoutId |-> timerCount + 1]
    /\ utilCalls' = Append(Refate(utilCalls, "pending", "superseded"),
                           [args |-> args, fate |-> "pending"])
    /\ last' = [op |-> "debounced", args |-> args, preFnCalls |-> fnCalls]
    /\ UNCHANGED <<cacheVars, hookVars, preview, delay, throttled, fnCalls>>
    /\ UNCHANGED pageVars

\* debounced(...args)
Debounced(args) ==
    /\ Len(utilCalls) < MaxUtilCalls
    /\ utilTimers' = ClearTimeout(utilTimers, debounced.timeoutId) \cup
            {[id |-> timerCount + 1, args |-> args, remaining |-> delay,
              call |-> Len(utilCalls) + 1]}
    /\ timerCount' = timerCount + 1
    /\ debounced' = [timeoutId |-> timerCount + 1]
    /\ utilCalls' = Append(Refate(utilCalls, "pending", "superseded"),
                           [args |-> args, fate |-> "pending"])
    /\ last' = [op |-> "debounced", args |-> args, preFnCalls |-> fnCalls]
    /\ UNCHANGED <<cacheVars, hookVars, preview, delay, throttled, fnCalls>>
    /\ UNCHANGED pageVars

\* the setTimeout callback of debounced: fn(...args); timeoutId = null
DebouncedTimer(t) ==
    /\ t.remaining = 0
    /\ utilTimers' = utilTimers \ {t}
    /\ fnCalls' = Append(fnCalls, [args |-> t.args, call |-> t.call])
    /\ debounced' = [timeoutId |-> 0]
    /\ utilCalls' = [utilCalls EXCEPT ![t.call].fate =
                            IF @ = "pending" THEN "ran" ELSE @]
    /\ last' = [op |-> "debouncedTimer", preFnCalls |-> fnCalls]
    /\ UNCHANGED <<cacheVars, hookVars, preview, delay, throttled, timerCount>>
    /\ UNCHANGED pageVars

\* debounced.cancel()
DebouncedCancel ==
    /\ utilTimers' = ClearTimeout(utilTimers, debounced.timeoutId)
    /\ debounced' = [timeoutId |-> 0]
    /\ utilCalls' = Refate(utilCalls, "pending", "cancelled")
    /\ last' = [op |-> "cancel", preFnCalls |-> fnCalls]
    /\ UNCHANGED <<cacheVars, hookVars, preview, delay, throttled, timerCount,
                   fnCalls>>
    /\ UNCHANGED pageVars

NextDebounce ==
    \/ \E args \in Args : Debounced(args)
    \/ \E t \in utilTimers : DebouncedTimer(t)
    \/ DebouncedCancel
    \/ UtilTick

SpecDebounce == InitUtil /\ [][NextDebounce]_vars

\* every invocation of fn belongs to one call, whose fate is one of fates,
\* has the args of that call, and no call is invoked twice
InvokedOnce(fates) ==
    \A i \in 1..Len(fnCalls) :
        /\ fnCalls[i].call \in 1..Len(utilCalls)
        /\ utilCalls[fnCalls[i].call].fate \in fates
        /\ utilCalls[fnCalls[i].call].args = fnCalls[i].args
        /\ \A j \in 1..Len(fnCalls) : fnCalls[j].call = fnCalls[i].call => j = i

\* C19: a call of the debounced function does not invoke fn; fn is invoked
\* for a call, once and with the args of that call, exactly when no later
\* call and no cancel() came before its timer ran, and until then the timer
\* of the last call is the one timer pending, due within delay; cancel()
\* leaves no timer, as before the first call.
C19_Debounce ==
    /\ last.op = "debounced" => fnCalls = last.preFnCalls
    /\ InvokedOnce({"ran"})
    /\ \A c \in 1..Len(utilCalls) :
          /\ utilCalls[c].fate = "ran" => \E i \in 1..Len(fnCalls) : fnCalls[i].call = c
          /\ utilCalls[c].fate = "pending" =>
                /\ c = Len(utilCalls)
                /\ \E t \in utilTimers :
                      /\ utilTimers = {t}
                      /\ t.call = c /\ t.args = utilCalls[c].args
                      /\ t.remaining <= delay
    /\ last.op = "cancel" =>
          /\ utilTimers = {} /\ debounced.timeoutId = 0
          /\ fnCalls = last.preFnCalls

C19_Witness ==
    /\ last.op = "debouncedTimer"
    /\ delay > 0
    /\ \E c \in 1..Len(utilCalls) : utilCalls[c].fate = "cancelled"
    /\ \E c \in 1..Len(utilCalls) : utilCalls[c].fate = "superseded"
    /\ utilCalls[Len(utilCalls)].fate = "ran"

----------------------------------------------------------------------------
(* utils/debounce.ts: throttle(fn, limit); delay holds the limit *)

Throttled_keepFirstArgs(args) ==
    /\ Len(utilCalls) < MaxUtilCalls
    /\ IF ~throttled.inThrottle
       THEN /\ fnCalls' = Append(fnCalls, [args |-> args,
                                           call |-> Len(utilCalls) + 1])
            /\ throttled' = [throttled EXCEPT !.inThrottle = TRUE,
                                              !.timeoutId = timerCount + 1]
            /\ utilTimers' = utilTimers \cup
                    {[id |-> timerCount + 1, remaining |-> delay]}
            /\ timerCount' = timerCount + 1
            /\ utilCalls' = Append(utilCalls, [args |-> args, fate |-> "immediate"])
       ELSE /\ throttled' = [throttled EXCEPT !.lastArgs =
                                    IF @ = Null THEN args ELSE @]
            /\ utilCalls' = Append(Refate(utilCalls, "window", "dropped"),
                                   [args |-> args, fate |-> "window"])
            /\ UNCHANGED <<fnCalls, utilTimers, timerCount>>
    /\ last' = [op |-> "throttled", args |-> args, pre |-> throttled,
                preFnCalls |-> fnCalls]
    /\ UNCHANGED <<cacheVars, hookVars, preview, delay, debounced>>
    /\ UNCHANGED pageVars

\* throttled(...args)
Throttled(args) ==
    /\ Len(utilCalls) < MaxUtilCalls
    /\ IF ~throttled.inThrottle
       THEN /\ fnCalls' = Append(fnCalls, [args |-> args,
                                           call |-> Len(utilCalls) + 1])
            /\ throttled' = [throttled EXCEPT !.inThrottle = TRUE,
                                              !.timeoutId = timerCount + 1]
            /\ utilTimers' = utilTimers \cup
                    {[id |-> timerCount + 1, remaining |-> delay]}
            /\ timerCount' = timerCount + 1
            /\ utilCalls' = Append(utilCalls, [args |-> args, fate |-> "immediate"])
       ELSE /\ throttled' = [throttled EXCEPT !.lastArgs = args]
            /\ utilCalls' = Append(Refate(utilCalls, "window", "dropped"),
                                   [args |-> args, fate |-> "window"])
            /\ UNCHANGED <<fnCalls, utilTimers, timerCount>>
    /\ last' = [op |-> "throttled", args |-> args, pre |-> throttled,
                preFnCalls |-> fnCalls]
    /\ UNCHANGED <<cacheVars, hookVars, preview, delay, debounced>>
    /\ UNCHANGED pageVars

\* the setTimeout callback of throttled: inThrottle = false, then
\* throttled(...lastArgs) if there are any, which invokes fn and opens the
\* next window, then lastArgs = null
ThrottledTimer(t) ==
    LET trailing == throttled.lastArgs # Null
        window == CallWithFate(utilCalls, "window")
    IN
    /\ t.remaining = 0
    /\ fnCalls' = IF trailing
                  THEN Append(fnCalls, [args |-> throttled.lastArgs,
                                        call |-> window])
                  ELSE fnCalls
    /\ utilTimers' = (utilTimers \ {t}) \cup
            (IF trailing THEN {[id |-> timerCount + 1, remaining |-> delay]}
             ELSE {})
    /\ timerCount' = IF trailing THEN timerCount + 1 ELSE timerCount
    /\ throttled' = [inThrottle |-> trailing, lastArgs |-> Null,
                     timeoutId |-> IF trailing THEN timerCount + 1
                                   ELSE throttled.timeoutId]
    /\ utilCalls' = Refate(utilCalls, "window", "trailing")
    /\ last' = [op |-> "throttledTimer", window |-> window,
                preFnCalls |-> fnCalls]
    /\ UNCHANGED <<cacheVars, hookVars, preview, delay, debounced>>
    /\ UNCHANGED pageVars

\* throttled.cancel()
ThrottledCancel ==
    /\ utilTimers' = ClearTimeout(utilTimers, throttled.timeoutId)
    /\ throttled' = [inThrottle |-> FALSE, lastArgs |-> Null, timeoutId |-> 0]
    /\ utilCalls' = Refate(utilCalls, "window", "discarded")
    /\ last' = [op |-> "cancel", preFnCalls |-> fnCalls]
    /\ UNCHANGED <<cacheVars, hookVars, preview, delay, debounced, timerCount,
                   fnCalls>>
    /\ UNCHANGED pageVars

NextThrottle ==
    \/ \E args \in Args : Throttled(args)
    \/ \E t \in utilTimers : ThrottledTimer(t)
    \/ ThrottledCancel
    \/ UtilTick

SpecThrottle == InitUtil /\ [][NextThrottle]_vars

\* C20: a call made while not throttled invokes fn at once with its args and
\* opens a window of limit ms; a call made in the window does not invoke
\* fn; when the window ends, fn is invoked once with the args of the last
\* call made in the window, if there was one, and a new window opens;
\* cancel() leaves no window, no timer and no trailing invocation, and an
\* invocation discarded by it never runs.
C20_Throttle ==
    /\ throttled.inThrottle <=> utilTimers # {}
    /\ Cardinality(utilTimers) <= 1
    /\ \A t \in utilTimers : t.remaining <= delay
    /\ InvokedOnce({"immediate", "trailing"})
    /\ (last.op = "throttled" /\ ~last.pre.inThrottle) =>
          /\ fnCalls = Append(last.preFnCalls,
                              [args |-> last.args, call |-> Len(utilCalls)])
          /\ throttled.inThrottle
          /\ \A t \in utilTimers : t.remaining = delay
    /\ (last.op = "throttled" /\ last.pre.inThrottle) =>
          fnCalls = last.preFnCalls
    /\ (last.op = "throttledTimer" /\ last.window # 0) =>
          /\ fnCalls = Append(last.preFnCalls,
                              [args |-> utilCalls[last.window].args,
                               call |-> last.window])
          /\ throttled.inThrottle
          /\ \A t \in utilTimers : t.remaining = delay
    /\ (last.op = "throttledTimer" /\ last.window = 0) =>
          /\ fnCalls = last.preFnCalls
          /\ ~throttled.inThrottle
    /\ last.op = "cancel" =>
          /\ fnCalls = last.preFnCalls
          /\ ~throttled.inThrottle
          /\ throttled.lastArgs = Null
          /\ CallWithFate(utilCalls, "window") = 0

C20_Witness ==
    /\ last.op = "throttledTimer"
    /\ last.window # 0
    /\ delay > 0
    /\ \E c \in 1..Len(utilCalls) : utilCalls[c].fate = "dropped"
    /\ utilCalls[last.window].args # utilCalls[last.window - 1].args

----------------------------------------------------------------------------
(* useVideoPagination *)

MaxVideosLength == 5    \* largest videos.length
MaxPageSize == 2        \* largest pageSize (the smallest is 1)

\* the numbers passed as initialPage and to goToPage: below 1 and above
\* every totalPages as well
PageNumbers == (0 - 1)..(MaxVideosLength + 2)

Max(a, b) == IF a >= b THEN a ELSE b

\* Math.ceil(a / b) for a >= 0, b >= 1
Ceil(a, b) == (a + b - 1) \div b

totalPages == Max(1, Ceil(pageProps.videosLength, pageProps.pageSize))

\* the indices (from 1) of array.slice(start, end) of an array of length len
Slice(len, start, end) ==
    LET from == IF start < 0 THEN Max(len + start, 0) ELSE Min(start, len)
        to == IF end < 0 THEN Max(len + end, 0) ELSE Min(end, len)
    IN  [i \in 1..Max(to - from, 0) |-> from + i]

paginatedVideos ==
    LET startIndex == (currentPage - 1) * pageProps.pageSize
        endIndex == startIndex + pageProps.pageSize
    IN  Slice(pageProps.videosLength, startIndex, endIndex)

hasNext == currentPage < totalPages

hasPrev == currentPage > 1

\* the dependency arrays of the two effects in the present render
ResetDeps == <<pageProps.videosLength, pageProps.pageSize>>

ClampDeps == <<currentPage, totalPages>>

\* an effect of the last render has not run yet
EffectsPending ==
    /\ pageProps.mounted
    /\ effectDeps.reset # ResetDeps \/ effectDeps.clamp # ClampDeps

Settled == pageProps.mounted /\ ~EffectsPending

InitPage ==
    /\ cache = <<>> /\ maxSize = MAX_CACHE_SIZE
    /\ revoked = [h \in BlobHandles |-> 0]
    /\ recency = <<>> /\ written = [k \in Keys |-> Undefined] /\ promo = NoPromo
    /\ last = [op |-> "new"]
    /\ HookUnused
    /\ UtilUnused
    /\ PageUnused

\* the first render: useState(initialPage)
PageMount(len, pageSize, initialPage) ==
    /\ ~pageProps.mounted
    /\ pageProps' = [videosLength |-> len, pageSize |-> pageSize,
                     initialPage |-> initialPage, mounted |-> TRUE]
    /\ currentPage' = initialPage
    /\ staleTotalPages' = Max(1, Ceil(len, pageSize))
    /\ last' = [op |-> "mount"]
    /\ UNCHANGED <<effectDeps, navigated>>
    /\ UNCHANGED <<cacheVars, hookVars, utilVars>>

FlushEffects_noClamp ==
    /\ EffectsPending
    /\ currentPage' = IF effectDeps.reset # ResetDeps THEN 1 ELSE currentPage
    /\ effectDeps' = [reset |-> ResetDeps, clamp |-> ClampDeps]
    /\ last' = [op |-> "effects", pre |-> currentPage]
    /\ UNCHANGED <<pageProps, staleTotalPages, navigated>>
    /\ UNCHANGED <<cacheVars, hookVars, utilVars>>

\* the effects of one commit, in order; each runs if its dependencies
\* changed, with the values of that render, and the last setCurrentPage of
\* the batch is the one that counts
FlushEffects ==
    LET afterReset == IF effectDeps.reset # ResetDeps THEN 1 ELSE currentPage
        afterClamp == IF effectDeps.clamp # ClampDeps /\ currentPage > totalPages
                      THEN totalPages ELSE afterReset
    IN
    /\ EffectsPending
    /\ currentPage' = afterClamp
    /\ effectDeps' = [reset |-> ResetDeps, clamp |-> ClampDeps]
    /\ last' = [op |-> "effects", pre |-> currentPage]
    /\ UNCHANGED <<pageProps, staleTotalPages, navigated>>
    /\ UNCHANGED <<cacheVars, hookVars, utilVars>>

\* a re-render with another videos.length or pageSize
SetOptions(len, pageSize) ==
    /\ Settled
    /\ <<len, pageSize>> # ResetDeps
    /\ pageProps' = [pageProps EXCEPT !.videosLength = len, !.pageSize = pageSize]
    /\ staleTotalPages' = totalPages
    /\ navigated' = TRUE
    /\ last' = [op |-> "options"]
    /\ UNCHANGED <<currentPage, effectDeps>>
    /\ UNCHANGED <<cacheVars, hookVars, utilVars>>

\* the totalPages a nextPage or goToPage callback can hold: that of the last
\* render or, for a callback kept from before, that of the render before
ClosureTotalPages == { totalPages, staleTotalPages }

Navigate(op, page) ==
    /\ Settled
    /\ currentPage' = page
    /\ navigated' = TRUE
    /\ last' = [op |-> op, pre |-> currentPage]
    /\ UNCHANGED <<pageProps, effectDeps, staleTotalPages>>
    /\ UNCHANGED <<cacheVars, hookVars, utilVars>>

nextPage(closureTotalPages) ==
    Navigate("nextPage", Min(currentPage + 1, closureTotalPages))

prevPage == Navigate("prevPage", Max(currentPage - 1, 1))

goToPage(page, closureTotalPages) ==
    Navigate("goToPage", Max(1, Min(page, closureTotalPages)))

reset == Navigate("reset", 1)

NextPage ==
    \/ \E len \in 0..MaxVideosLength, pageSize \in 1..MaxPageSize,
          initialPage \in PageNumbers : PageMount(len, pageSize, initialPage)
    \/ FlushEffects
    \/ \E len \in 0..MaxVideosLength, pageSize \in 1..MaxPageSize : SetOptions(len, pageSize)
    \/ \E tp \in ClosureTotalPages : nextPage(tp)
    \/ prevPage
    \/ \E page \in PageNumbers, tp \in ClosureTotalPages : goToPage(page, tp)
    \/ reset

SpecPage == InitPage /\ [][NextPage]_vars

\* C21: once the effects have run, after any nextPage, prevPage, goToPage(p),
\* reset and any change of the list, 1 <= currentPage <= totalPages, hasNext
\* is true exactly when currentPage < totalPages and hasPrev exactly when
\* currentPage > 1.
C21_PageInRange ==
    Settled =>
        /\ 1 <= currentPage /\ currentPage <= totalPages
        /\ hasNext <=> currentPage < totalPages
        /\ hasPrev <=> currentPage > 1
        /\ paginatedVideos # <<>> \/ pageProps.videosLength = 0

C21_Witness ==
    /\ last.op = "effects"
    /\ navigated
    /\ last.pre > totalPages
    /\ currentPage = totalPages
    /\ totalPages >= 2

\* C22: mounted with initialPage = p, 1 <= p <= totalPages, currentPage is p
\* and paginatedVideos is page p once the effects of the mount have run, and
\* as long as no operation and no change of videos.length or pageSize has
\* happened.
C22_StartsOnInitialPage ==
    (/\ Settled
     /\ ~navigated
     /\ 1 <= pageProps.initialPage
     /\ pageProps.initialPage <= totalPages)
        => /\ currentPage = pageProps.initialPage
           /\ paginatedVideos =
                Slice(pageProps.videosLength,
                      (pageProps.initialPage - 1) * pageProps.pageSize,
                      pageProps.initialPage * pageProps.pageSize)

----------------------------------------------------------------------------
(* More claims about useThumbnailGenerator, checked under SpecHook *)

\* the captures whose handleSeeked and handleError still listen on element i
InFlight(i) == videos[i].listeners

\* C23: at most one capture is in flight per engine: the listeners of an
\* earlier capture are detached before the seek of a new one is commanded, so
\* one seeked or error event completes at most one capture.
C23_SingleCaptureInFlight ==
    /\ \A i \in 1..Len(videos) : Len(InFlight(i)) <= 1
    /\ last.op \in {"seeked", "error"} => Len(last.completed) <= 1

\* the frame of source src at the quantized time of a request for time
FrameAt(src, time) == "data:" \o src \o "@" \o NumberToString(roundTime(time))

\* C24: every cache entry under the key of source S and quantized time Q
\* holds a frame rasterized while the element was bound to S and positioned
\* at Q.
C24_CacheIntegrity ==
    \A key \in MapKeySet(cache) :
        \E src \in Srcs, time \in ReqTimes :
            /\ key = getCacheKey(src, time)
            /\ MapGet(cache, key) = FrameAt(src, time)

\* C25: after a teardown (unmount, or enabled became false) a seeked or error
\* event of a capture started before it changes neither thumbnailUrl,
\* isLoading, error nor the cache, and the cache stays empty.
C25_TeardownAbandonsCapture ==
    (/\ last.op \in {"seeked", "error"}
     /\ last.completed # <<>>
     /\ videoRef = 0)
        => /\ <<thumbnailUrl, isLoading, error>> = last.prePreview
           /\ cache = last.pre
           /\ cache = <<>>

\* C26: two requests on one source whose times fall into the same 1-second
\* bucket make at most one seek and one rasterization: no second capture is
\* started for a key while a capture for that key is in flight.
C26_OneCapturePerBucket ==
    \A i \in 1..Len(videos) :
        \A j, k \in 1..Len(InFlight(i)) :
            j # k => InFlight(i)[j].key # InFlight(i)[k].key

----------------------------------------------------------------------------
(* SpecHookAnyTime: the hook driven by a caller that also passes a time     *)
(* that is not finite, as the progress bar does for a zero-width bar or a   *)
(* stream of infinite duration                                              *)

AnyTimes == ReqTimes \cup {NaN}

NextHookAnyTime ==
    \/ \E src \in Srcs \cup {Undefined}, en \in BOOLEAN : Mount(src, en)
    \/ \E src \in Srcs \cup {Undefined}, en \in BOOLEAN : SetProps(src, en)
    \/ Unmount
    \/ \E time \in AnyTimes : GenerateThumbnail(time)
    \/ \E time \in AnyTimes : GenerateThumbnailStale(time)
    \/ Tick
    \/ \E t \in timers : TimerFire(t)
    \/ \E i \in 1..Len(videos), outcome \in RasterOutcomes : VideoSeeked(i, outcome)
    \/ \E i \in 1..Len(videos) : VideoError(i)
    \/ clearCache

SpecHookAnyTime == InitHook /\ [][NextHookAnyTime]_vars

\* C28: for every requested time and every behaviour of the element, the
\* timer callback and the completion handlers end without raising an
\* exception.
C28_NoException == ~(last.op = "timer" /\ last.outcome = "throws")

\* the time the claim has the hook use: 0 for a time that is not finite
ClampedTime(time) == IF IsFinite(time) THEN time ELSE Num(0)

\* C29: a timer callback run for a time that is not finite uses the cache
\* key and the seek target of time 0; for a finite time the key and the seek
\* target are both made of the time quantized to the nearest second.
C29_NonFiniteClamped ==
    TimerLookedUp =>
        /\ last.key = getCacheKey(last.src, ClampedTime(last.requestedTime))
        /\ last.outcome \notin {"hit", "noVideo"} =>
              /\ last.outcome = "seek"
              /\ last.seek = roundTime(ClampedTime(last.requestedTime))

----------------------------------------------------------------------------
(* SpecHookFair: time passes, due timers run, and an element on which a     *)
(* capture listens dispatches seeked or error whenever it can               *)

\* element i answers the captures listening on it
Answer(i) ==
    /\ InFlight(i) # <<>>
    /\ \/ \E outcome \in RasterOutcomes : VideoSeeked(i, outcome)
       \/ VideoError(i)

FairHook ==
    /\ WF_vars(Tick)
    /\ WF_vars(\E t \in timers : TimerFire(t))
    /\ WF_vars(\E i \in 1..Len(videos) : Answer(i))

SpecHookFair == InitHook /\ [][NextHookAnyTime]_vars /\ FairHook

\* C27: isLoading never stays true forever: every state of the mounted hook
\* with isLoading = true is followed by a state with isLoading = false (or by
\* the unmount of the hook).
C27_LoadingEnds ==
    (phase = "mounted" /\ isLoading) ~> (~isLoading \/ phase # "mounted")

----------------------------------------------------------------------------
(* A further claim about ThumbnailLRUCache, checked under SpecCache *)

\* handle h is the value of an entry of Map m
Held(m, h) == \E key \in MapKeySet(m) : MapGet(m, key) = h

\* C30: no handle leaks: a blob handle that was held before a set, get or
\* clear and that get returns for no key after it has been released; in
\* particular the handle replaced by a set on a held key.
C30_NoHandleLeak ==
    last.op \in {"get", "set", "clear"} =>
        \A h \in BlobHandles :
            (Held(last.pre, h) /\ ~Held(cache, h)) => revoked[h] >= 1

====
